---- MODULE Spec2Model ----
(***************************************************************************)
(* A model of utils.py: the boundary-aware 2D convolution (convolve2d,     *)
(* _convolve), the Gaussian kernel builder (get_gaussian_kernel), the      *)
(* local-maxima extractor (get_maxima) and the two ANMS selectors (anms,   *)
(* anms_kdtree).                                                           *)
(*                                                                         *)
(* Every function of the source is pure, so a behaviour is one call: Init  *)
(* draws the arguments from bounded sets (pc = "call"), one action applies *)
(* the function and stores what it returns or raises in ret.               *)
(*                                                                         *)
(* Arrays are records [shape |-> <<rows, cols>>, at |-> f] with f a        *)
(* function on the 0-based index pairs.  Samples are integers; NaN is one  *)
(* distinguished sample that absorbs arithmetic, as a float NaN does.      *)
(* Distances are kept squared: sqrt is monotone, so every comparison of    *)
(* the source between two distances is the comparison of their squares.    *)
(***************************************************************************)
EXTENDS Integers, Sequences, FiniteSets, TLC

VARIABLES op, args, pc, conv_input, ret

vars == <<op, args, pc, conv_input, ret>>

\* --------------------------------------------------------------- bounds
\* Largest number of rows and of columns of an image given to convolve2d.
MaxDim == 2

\* Largest radius of a kernel given to convolve2d.
MaxRadius == 1

\* Largest kernel size n given to get_gaussian_kernel (smallest is -MaxN).
MaxN == 5

\* Largest sigma given to get_gaussian_kernel.
MaxSigma == 3

\* Largest number of rows, and of columns, of a map given to get_maxima.
MaxMapRows == 4

MaxMapCols == 5

\* Largest score of a map given to get_maxima.
MaxBump == 2

\* Largest score of a response map given to anms and anms_kdtree.
MaxScore == 1

\* Largest n given to anms and anms_kdtree.
MaxTake == 2

\* Largest edge given to anms_kdtree.
MaxEdge == 1

\* ------------------------------------------------------------ samples
NaN == 99999

\* What freshly allocated, never written memory can hold.
Garbage == {0, 1, NaN}

Add(a, b) == IF a = NaN \/ b = NaN THEN NaN ELSE a + b

Mul(a, b) == IF a = NaN \/ b = NaN THEN NaN ELSE a * b

Min(a, b) == IF a < b THEN a ELSE b

Max(a, b) == IF a > b THEN a ELSE b

\* ------------------------------------------------------ numpy arrays
Idx(m, n) == (0 .. m - 1) \X (0 .. n - 1)

Rows(a) == a.shape[1]

Cols(a) == a.shape[2]

\* An array of the given shape holding v in every cell.
Full(m, n, v) == [shape |-> <<m, n>>, at |-> [p \in Idx(m, n) |-> v]]

\* The outcome of a statement: the array it leaves, or the exception.
Ok(a) == [status |-> "ok", arr |-> a]

Raise(e) == [status |-> e, arr |-> Full(0, 0, 0)]

\* Python's normalisation of one bound of a slice over a length.
Clamp(i, len) == IF i < 0 THEN Max(i + len, 0) ELSE Min(i, len)

\* a:b, a: and :b over an axis of the given length, as <<first, count>>.
Slice(a, b, len) == <<Clamp(a, len), Max(Clamp(b, len) - Clamp(a, len), 0)>>

SliceFrom(a, len) == <<Clamp(a, len), Max(len - Clamp(a, len), 0)>>

SliceTo(b, len) == <<0, Clamp(b, len)>>

\* arr[rs, cs] for two slices.
View(arr, rs, cs) ==
    [shape |-> <<rs[2], cs[2]>>,
     at |-> [p \in Idx(rs[2], cs[2]) |-> arr.at[<<rs[1] + p[1], cs[1] + p[2]>>]]]

\* np.flip(arr, axis)
Flip(arr, axis) ==
    [shape |-> arr.shape,
     at |-> [p \in Idx(Rows(arr), Cols(arr)) |->
               IF axis = 0
               THEN arr.at[<<Rows(arr) - 1 - p[1], p[2]>>]
               ELSE arr.at[<<p[1], Cols(arr) - 1 - p[2]>>]]]

\* numpy's broadcasting of a source shape into a target shape.
Broadcastable(src, m, n) ==
    /\ (Rows(src) = m \/ Rows(src) = 1)
    /\ (Cols(src) = n \/ Cols(src) = 1)

\* arr[rs, cs] = src: the array after the assignment, or ValueError when
\* src cannot be broadcast into the region.
Assign(arr, rs, cs, src) ==
    IF ~Broadcastable(src, rs[2], cs[2])
    THEN Raise("ValueError")
    ELSE Ok([shape |-> arr.shape,
             at |-> [p \in Idx(Rows(arr), Cols(arr)) |->
                       IF /\ p[1] >= rs[1] /\ p[1] < rs[1] + rs[2]
                          /\ p[2] >= cs[1] /\ p[2] < cs[1] + cs[2]
                       THEN src.at[<<IF Rows(src) = 1 THEN 0 ELSE p[1] - rs[1],
                                     IF Cols(src) = 1 THEN 0 ELSE p[2] - cs[1]>>]
                       ELSE arr.at[p]]])

\* ------------------------------------------------------------ _convolve
\* np.sum(window * h180) over the cells 0 .. k-1 of the window in row-major
\* order, the window being g[v-radius : v+radius+1, u-radius : u+radius+1].
RECURSIVE WindowSum(_, _, _, _, _, _)
WindowSum(g, h180, v, u, radius, k) ==
    IF k = 0 THEN 0
    ELSE LET side == 2 * radius + 1
             a == (k - 1) \div side
             b == (k - 1) % side
         IN  Add(WindowSum(g, h180, v, u, radius, k - 1),
                 Mul(g.at[<<v - radius + a, u - radius + b>>], h180.at[<<a, b>>]))

\* The kernel left as it is: correlation instead of convolution.
H180Unflipped(h) == h

\* h[::-1, ::-1]
H180(h) == Flip(Flip(h, 0), 1)

_convolve(g, h) ==
    LET radius == Rows(h) \div 2
        h180 == H180(h)
        side == 2 * radius + 1
    IN  [shape |-> g.shape,
         at |-> [p \in Idx(Rows(g), Cols(g)) |->
                   IF /\ p[1] >= radius /\ p[1] < Rows(g) - radius
                      /\ p[2] >= radius /\ p[2] < Cols(g) - radius
                   THEN WindowSum(g, h180, p[1], p[2], radius, side * side)
                   ELSE 0]]

\* ----------------------------------------------------------- convolve2d
\* (empty is the array np.empty allocated, as far as it is written.)
\* One padding statement conv_input[trs, tcs] = src, skipped once an earlier
\* statement has raised.
Pad(res, trs, tcs, src) ==
    IF res.status # "ok" THEN res ELSE Assign(res.arr, trs, tcs, src)

\* conv_input[r:-r, r:-r] = img
Interior(empty, img, r) ==
    Assign(empty,
           Slice(r, -r, Rows(empty)), Slice(r, -r, Cols(empty)), img)

\* boundary_mode == "fill"
PadFill(empty, img, r, fill) ==
    Interior(Full(Rows(empty), Cols(empty), fill), img, r)

\* boundary_mode == "extend"
PadExtend(empty, img, r) ==
    LET m == Rows(empty)
        n == Cols(empty)
        s0 == Interior(empty, img, r)
        top == Pad(s0, SliceTo(r, m), SliceTo(n, n),
                   View(s0.arr, Slice(r, r + 1, m), SliceTo(n, n)))
        bottom == Pad(top, SliceFrom(-r, m), SliceTo(n, n),
                      View(top.arr, Slice(-r - 1, -r, m), SliceTo(n, n)))
        left == Pad(bottom, SliceTo(m, m), SliceTo(r, n),
                    View(bottom.arr, SliceTo(m, m), Slice(r, r + 1, n)))
    IN  Pad(left, SliceTo(m, m), SliceFrom(-r, n),
            View(left.arr, SliceTo(m, m), Slice(-r - 1, -r, n)))

\* The rows (axis 0) or columns (axis 1) that the "mirror" mode reflects
\* into the padding before the image and after it.
MirrorBeforeSkippingBorder(r, len) == Slice(r + 1, r + r + 1, len)

MirrorBefore(r, len) == Slice(r, r + r, len)

MirrorAfter(r, len) == Slice(-r - r, -r, len)

\* boundary_mode == "mirror"
PadMirror(empty, img, r) ==
    LET m == Rows(empty)
        n == Cols(empty)
        s0 == Interior(empty, img, r)
        top == Pad(s0, SliceTo(r, m), SliceTo(n, n),
                   Flip(View(s0.arr, MirrorBefore(r, m), SliceTo(n, n)), 0))
        bottom == Pad(top, SliceFrom(-r, m), SliceTo(n, n),
                      Flip(View(top.arr, MirrorAfter(r, m), SliceTo(n, n)), 0))
        left == Pad(bottom, SliceTo(m, m), SliceTo(r, n),
                    Flip(View(bottom.arr, SliceTo(m, m), MirrorBefore(r, n)), 1))
    IN  Pad(left, SliceTo(m, m), SliceFrom(-r, n),
            Flip(View(left.arr, SliceTo(m, m), MirrorAfter(r, n)), 1))

\* boundary_mode == "wrap"
PadWrap(empty, img, r) ==
    LET m == Rows(empty)
        n == Cols(empty)
        im == Rows(img)
        in == Cols(img)
        allr == SliceTo(im, im)
        allc == SliceTo(in, in)
        lastr == SliceFrom(-r, im)
        firstr == SliceTo(r, im)
        lastc == SliceFrom(-r, in)
        firstc == SliceTo(r, in)
        s0 == Interior(empty, img, r)
        top == Pad(s0, SliceTo(r, m), Slice(r, -r, n), View(img, lastr, allc))
        bottom == Pad(top, SliceFrom(-r, m), Slice(r, -r, n), View(img, firstr, allc))
        left == Pad(bottom, Slice(r, -r, m), SliceTo(r, n), View(img, allr, lastc))
        right == Pad(left, Slice(r, -r, m), SliceFrom(-r, n), View(img, allr, firstc))
        nw == Pad(right, SliceTo(r, m), SliceTo(r, n), View(img, lastr, lastc))
        ne == Pad(nw, SliceTo(r, m), SliceFrom(-r, n), View(img, lastr, firstc))
        sw == Pad(ne, SliceFrom(-r, m), SliceTo(r, n), View(img, firstr, lastc))
    IN  Pad(sw, SliceFrom(-r, m), SliceFrom(-r, n), View(img, firstr, firstc))

\* convolve2d without its final else branch: a string that is no mode is
\* taken for "fill".
ConvInputWithoutElse(img, kern, boundary_mode, fill, junk) ==
    LET r == Rows(kern) \div 2
        empty == Full(Rows(img) + 2 * r, Cols(img) + 2 * r, junk)
    IN  CASE boundary_mode = "extend" -> PadExtend(empty, img, r)
          [] boundary_mode = "mirror" -> PadMirror(empty, img, r)
          [] boundary_mode = "wrap" -> PadWrap(empty, img, r)
          [] OTHER -> PadFill(empty, img, r, fill)

\* The array conv_input that convolve2d builds for a mode other than "valid"; junk is
\* what np.empty left in the cells no statement writes.
ConvInput(img, kern, boundary_mode, fill, junk) ==
    LET r == Rows(kern) \div 2
        empty == Full(Rows(img) + 2 * r, Cols(img) + 2 * r, junk)
    IN  CASE boundary_mode = "fill" -> PadFill(empty, img, r, fill)
          [] boundary_mode = "extend" -> PadExtend(empty, img, r)
          [] boundary_mode = "mirror" -> PadMirror(empty, img, r)
          [] boundary_mode = "wrap" -> PadWrap(empty, img, r)
          [] OTHER -> Raise("ValueError")

convolve2d(img, kern, boundary_mode, fill, junk) ==
    LET r == Rows(kern) \div 2
        padded == ConvInput(img, kern, boundary_mode, fill, junk)
        conv_out == _convolve(padded.arr, kern)
    IN  IF boundary_mode = "valid" THEN Ok(_convolve(img, kern))
        ELSE IF padded.status # "ok" THEN padded
        ELSE Ok(View(conv_out, Slice(r, -r, Rows(conv_out)),
                               Slice(r, -r, Cols(conv_out))))

\* -------------------------------------------------- get_gaussian_kernel
\* The kernel is kept by its exponents: cell (k, j) holds
\* (j - mean)^2 + (k - mean)^2, the weight being exp(-cell / (2 sigma^2))
\* over the sum of all of them.
get_gaussian_kernel(n, sigma) ==
    LET mean == n \div 2
    IN  IF n % 2 = 0 THEN Raise("ValueError")
        ELSE IF n < 0 THEN Raise("ValueError")
        ELSE IF sigma = 0 THEN Raise("ZeroDivisionError")
        ELSE Ok([shape |-> <<n, n>>,
                 at |-> [p \in Idx(n, n) |->
                           (p[2] - mean) * (p[2] - mean)
                           + (p[1] - mean) * (p[1] - mean)]])

\* ------------------------------------------ the arguments of convolve2d
Sides == {2 * r + 1 : r \in 0 .. MaxRadius}

\* An image with a single 1, the image counting its cells from 1 in
\* row-major order, and the black image.
Impulse(m, n, c) == [shape |-> <<m, n>>, at |-> [p \in Idx(m, n) |-> IF p = c THEN 1 ELSE 0]]

Ramp(m, n) == [shape |-> <<m, n>>, at |-> [p \in Idx(m, n) |-> 1 + p[1] * n + p[2]]]

Images ==
    UNION {{Impulse(m, n, c) : c \in Idx(m, n)} \cup {Ramp(m, n), Full(m, n, 0)} :
             <<m, n>> \in (1 .. MaxDim) \X (1 .. MaxDim)}

\* The square kernels of odd side: one tap of weight 1 or 2, all weights
\* different, and all weights 0.
Kernels ==
    UNION {{[shape |-> <<s, s>>, at |-> [p \in Idx(s, s) |-> IF p = c THEN w ELSE 0]] :
              <<c, w>> \in Idx(s, s) \X {1, 2}}
           \cup {Ramp(s, s), Full(s, s, 0)} : s \in Sides}

Modes == {"valid", "fill", "extend", "mirror", "wrap"}

\* Modes plus two strings that are no boundary mode.
ModeArgs == Modes \cup {"reflect", ""}

FillArgs == {0, 7}

InitConvolve2d ==
    /\ op = "convolve2d"
    /\ pc = "call"
    /\ conv_input = Raise("none")
    /\ ret = Raise("none")
    /\ \E img \in Images, kern \in Kernels, mode \in ModeArgs, fill \in FillArgs :
         /\ (mode # "fill" => fill = 0)
         /\ args = [img |-> img, kern |-> kern, boundary_mode |-> mode, fill |-> fill]

InitGetGaussianKernel ==
    /\ op = "get_gaussian_kernel"
    /\ pc = "call"
    /\ conv_input = Raise("none")
    /\ ret = Raise("none")
    /\ \E n \in -MaxN .. MaxN, sigma \in 0 .. MaxSigma :
         args = [n |-> n, sigma |-> sigma]

Convolve2d ==
    /\ pc = "call"
    /\ op = "convolve2d"
    /\ \E junk \in Garbage :
         /\ conv_input' = IF args.boundary_mode = "valid" THEN conv_input
                          ELSE ConvInput(args.img, args.kern, args.boundary_mode,
                                         args.fill, junk)
         /\ ret' = convolve2d(args.img, args.kern, args.boundary_mode, args.fill, junk)
    /\ pc' = "done"
    /\ UNCHANGED <<op, args>>

GetGaussianKernel ==
    /\ pc = "call"
    /\ op = "get_gaussian_kernel"
    /\ ret' = get_gaussian_kernel(args.n, args.sigma)
    /\ pc' = "done"
    /\ UNCHANGED <<op, args, conv_input>>

InitConv == InitConvolve2d \/ InitGetGaussianKernel

NextConv == Convolve2d \/ GetGaussianKernel

SpecConv == InitConv /\ [][NextConv]_vars

\* ----------------------------------------------------------- get_maxima
\* A threshold is kept exactly, as the triple [a, b, c] standing for
\* (a + sqrt(b)) / c with c > 0: an integer t is [t, 0, 1], and the mean
\* plus the standard deviation of K samples with sum S and sum of squares
\* Q is [S, K*Q - S*S, K].
Exactly(t) == [a |-> t, b |-> 0, c |-> 1]

\* p < threshold
Below(p, threshold) ==
    LET x == p * threshold.c - threshold.a
    IN  x < 0 \/ x * x < threshold.b

\* The three tests of the source on the neighbours of cell (k, j): the three
\* cells above, the three below, the one to the left and the one to the right.
IsPeakIgnoringSides(im, k, j) ==
    LET p == im.at[<<k, j>>]
    IN  /\ \A x \in j - 1 .. j + 1 : p > im.at[<<k - 1, x>>]
        /\ \A x \in j - 1 .. j + 1 : p > im.at[<<k + 1, x>>]

IsPeak(im, k, j) ==
    LET p == im.at[<<k, j>>]
    IN  /\ \A x \in j - 1 .. j + 1 : p > im.at[<<k - 1, x>>]
        /\ \A x \in j - 1 .. j + 1 : p > im.at[<<k + 1, x>>]
        /\ \A x \in {j - 1, j + 1} : p > im.at[<<k, x>>]

\* The points appended during the first t steps of the double loop over
\* k in range(1, m - 1) and j in range(1, n - 1).
RECURSIVE Scan(_, _, _)
Scan(im, threshold, t) ==
    IF t <= 0 THEN <<>>
    ELSE LET k == 1 + (t - 1) \div (Cols(im) - 2)
             j == 1 + ((t - 1) % (Cols(im) - 2))
             p == im.at[<<k, j>>]
             before == Scan(im, threshold, t - 1)
         IN  IF ~Below(p, threshold) /\ IsPeak(im, k, j)
             THEN Append(before, <<j, k, p>>)
             ELSE before

\* list.sort(key=lambda v: v[2], reverse=True): the stable sort of the
\* tuples by their third component, largest first.
RECURSIVE SortDescending(_)
SortDescending(list) ==
    IF list = <<>> THEN <<>>
    ELSE LET x == list[Len(list)]
             sorted == SortDescending(SubSeq(list, 1, Len(list) - 1))
             keep == Cardinality({q \in 1 .. Len(sorted) : sorted[q][3] >= x[3]})
         IN  SubSeq(sorted, 1, keep) \o <<x>> \o SubSeq(sorted, keep + 1, Len(sorted))

get_maxima(im, threshold, sort) ==
    LET steps == IF Rows(im) >= 3 /\ Cols(im) >= 3
                 THEN (Rows(im) - 2) * (Cols(im) - 2) ELSE 0
        points == Scan(im, threshold, steps)
    IN  IF sort THEN SortDescending(points) ELSE points

\* ----------------------------------------------------------------- anms
RECURSIVE SumOver(_, _, _)
\* The sum of the samples (square = FALSE) or of their squares over the
\* first t cells of H in row-major order.
SumOver(H, square, t) ==
    IF t = 0 THEN 0
    ELSE LET x == H.at[<<(t - 1) \div Cols(H), (t - 1) % Cols(H)>>]
         IN  SumOver(H, square, t - 1) + (IF square THEN x * x ELSE x)

\* H.mean() + H.std()
MeanPlusStd(H) ==
    LET K == Rows(H) * Cols(H)
        S == SumOver(H, FALSE, K)
        Q == SumOver(H, TRUE, K)
    IN  [a |-> S, b |-> K * Q - S * S, c |-> K]

\* H.min()
MinOf(H) ==
    CHOOSE x \in {H.at[p] : p \in DOMAIN H.at} : \A q \in DOMAIN H.at : x <= H.at[q]

\* The threshold of anms and anms_kdtree, or the exception of H.min() on
\* an array without cells.  The mean of such an array is nan, which no
\* comparison reads as get_maxima loops over no cell.
Threshold(H, use_thresh) ==
    IF use_thresh
    THEN [status |-> "ok",
          val |-> IF Rows(H) * Cols(H) = 0 THEN Exactly(NaN) ELSE MeanPlusStd(H)]
    ELSE IF Rows(H) * Cols(H) = 0
    THEN [status |-> "ValueError", val |-> Exactly(NaN)]
    ELSE [status |-> "ok", val |-> Exactly(MinOf(H))]

\* The suppression ratio c is the fraction c.num / c.den with c.den > 0.
\* h < c * hh
StrongerSwapped(h, hh, c) == hh * c.den < c.num * h

Stronger(h, hh, c) == h * c.den < c.num * hh

\* (u - uu) ** 2 + (v - vv) ** 2, the square of the distance d
Dist2(a, b) == (a[1] - b[1]) * (a[1] - b[1]) + (a[2] - b[2]) * (a[2] - b[2])

\* The square of rmin after the inner loop of anms has seen the first k
\* maxima; rmax2 is the square of rmax.
RECURSIVE Rmin2(_, _, _, _, _)
Rmin2(maxima, i, c, rmax2, k) ==
    IF k = 0 THEN rmax2
    ELSE LET rmin2 == Rmin2(maxima, i, c, rmax2, k - 1)
             d2 == Dist2(maxima[i], maxima[k])
         IN  IF i # k /\ Stronger(maxima[i][3], maxima[k][3], c) /\ d2 < rmin2
             THEN d2 ELSE rmin2

\* anms_maxima[:n]
Take(list, n) == SubSeq(list, 1, SliceTo(n, Len(list))[2])

_maxima_to_uv(maxima, zipped) ==
    IF ~zipped
    THEN <<[q \in 1 .. Len(maxima) |-> maxima[q][1]],
           [q \in 1 .. Len(maxima) |-> maxima[q][2]]>>
    ELSE [q \in 1 .. Len(maxima) |-> <<maxima[q][1], maxima[q][2]>>]

\* What a call of anms or anms_kdtree leaves: the exception or "ok", the
\* value returned, and the list anms_maxima as the return statement finds
\* it (sorted, not cut to n; the third component of an entry is the
\* square of its radius).
Failed(e) == [status |-> e, val |-> <<>>, anms_maxima |-> <<>>]

Returned(ranked, n, zipped) ==
    [status |-> "ok", val |-> _maxima_to_uv(Take(ranked, n), zipped),
     anms_maxima |-> ranked]

\* The list anms_maxima of anms before it is sorted.
AnmsEntries(maxima, c, rmax) ==
    [i \in 1 .. Len(maxima) |->
        <<maxima[i][1], maxima[i][2], Rmin2(maxima, i, c, rmax * rmax, Len(maxima))>>]

anms(H, n, c, use_thresh, zipped) ==
    LET thresh == Threshold(H, use_thresh)
        maxima == get_maxima(H, thresh.val, FALSE)
        rmax == Max(Rows(H), Cols(H)) * Max(Rows(H), Cols(H))
    IN  IF thresh.status # "ok" THEN Failed(thresh.status)
        ELSE Returned(SortDescending(AnmsEntries(maxima, c, rmax)), n, zipped)

\* ---------------------------------------------------------- anms_kdtree
\* H[edge:-edge, edge:-edge]
Trim(H, edge) ==
    View(H, Slice(edge, -edge, Rows(H)), Slice(edge, -edge, Cols(H)))

\* What tree.query(muv[i : i + 1], k=k) may give as ind[0, -1]: a maximum
\* that is k-th in some order of all the maxima by increasing distance to
\* maxima[i] (maxima[i] itself is the first, at distance 0).  The library
\* leaves the order among equal distances open.
KthNearest(maxima, i, k) ==
    {j \in 1 .. Len(maxima) :
        LET d2 == Dist2(maxima[i], maxima[j])
            nearer == {x \in 1 .. Len(maxima) : Dist2(maxima[i], maxima[x]) < d2}
            within == {x \in 1 .. Len(maxima) : Dist2(maxima[i], maxima[x]) <= d2}
        IN  Cardinality(nearer) < k /\ k <= Cardinality(within)}

NoEntry == -1

\* The last k of "for k in range(2, nm)".
LastK(nm) == nm - 1

\* What the loop over k can leave for maxima[i], from step k on: the
\* square of the recorded distance, or NoEntry when the loop ends without
\* a break.
RECURSIVE Search(_, _, _, _)
Search(maxima, i, c, k) ==
    IF k > LastK(Len(maxima)) THEN {NoEntry}
    ELSE UNION {IF Stronger(maxima[i][3], maxima[j][3], c)
                THEN {Dist2(maxima[i], maxima[j])}
                ELSE Search(maxima, i, c, k + 1) : j \in KthNearest(maxima, i, k)}

\* The maxima that anms_kdtree finds, or the exception raised before
\* the loop: by H.min() on a map trimmed to nothing, or by KDTree(muv) for
\* the one-dimensional array that np.array makes of an empty list.
KdMaxima(H, edge, use_thresh) ==
    LET trimmed == Trim(H, edge)
        thresh == Threshold(trimmed, use_thresh)
        maxima == get_maxima(trimmed, thresh.val, FALSE)
    IN  IF thresh.status # "ok" THEN [status |-> thresh.status, val |-> <<>>]
        ELSE IF Len(maxima) = 0 THEN [status |-> "ValueError", val |-> <<>>]
        ELSE [status |-> "ok", val |-> maxima]

\* One outcome of the search per maximum.
KdPicks(maxima, c) ==
    LET all == UNION {Search(maxima, i, c, 2) : i \in 1 .. Len(maxima)}
    IN  {pick \in [1 .. Len(maxima) -> all] :
            \A i \in 1 .. Len(maxima) : pick[i] \in Search(maxima, i, c, 2)}

\* The list anms_maxima of anms_kdtree before it is sorted.
KdEntries(maxima, edge, pick) ==
    LET found(e) == e[3] # NoEntry
    IN  SelectSeq([i \in 1 .. Len(maxima) |->
                     <<maxima[i][1] + edge, maxima[i][2] + edge, pick[i]>>], found)

\* What a call of anms_kdtree can leave, one outcome for each way the
\* library can order equal distances.
anms_kdtree(H, n, c, edge, use_thresh, zipped) ==
    LET found == KdMaxima(H, edge, use_thresh)
    IN  IF found.status # "ok" THEN {Failed(found.status)}
        ELSE {Returned(SortDescending(KdEntries(found.val, edge, pick)), n, zipped) :
                pick \in KdPicks(found.val, c)}

\* ----------------------------------------- the arguments of get_maxima
\* The maps that are 0 except for at most two cells holding 1 .. MaxBump.
Bumps(m, n) ==
    {[shape |-> <<m, n>>,
      at |-> [p \in Idx(m, n) |-> IF p = c1 THEN v1 ELSE IF p = c2 THEN v2 ELSE 0]] :
        <<c1, v1, c2, v2>> \in Idx(m, n) \X (0 .. MaxBump) \X Idx(m, n) \X (0 .. MaxBump)}

InitGetMaxima ==
    /\ op = "get_maxima"
    /\ pc = "call"
    /\ conv_input = Raise("none")
    /\ ret = [status |-> "none", val |-> <<>>]
    /\ \E m \in 2 .. MaxMapRows, n \in 2 .. MaxMapCols :
         \E im \in Bumps(m, n), threshold \in 0 .. MaxBump, sort \in BOOLEAN :
            args = [im |-> im, threshold |-> threshold, sort |-> sort]

GetMaxima ==
    /\ pc = "call"
    /\ op = "get_maxima"
    /\ ret' = [status |-> "ok",
               val |-> get_maxima(args.im, Exactly(args.threshold), args.sort)]
    /\ pc' = "done"
    /\ UNCHANGED <<op, args, conv_input>>

SpecMaxima == InitGetMaxima /\ [][GetMaxima]_vars

\* ------------------------------- the arguments of anms and anms_kdtree
\* The cells of a response map that are not at the background score: the
\* corners of the 3x3 block in the middle of the 7x7 map.
Sites == {<<2, 2>>, <<2, 4>>, <<4, 2>>, <<4, 4>>}

Scores == {-2, -1} \cup (1 .. MaxScore)

Background == CHOOSE x \in Scores : \A y \in Scores : x <= y

ResponseMaps ==
    {[shape |-> <<7, 7>>,
      at |-> [p \in Idx(7, 7) |-> IF p \in Sites THEN f[p] ELSE Background]] :
        f \in [Sites -> Scores]}

\* The default of c, and 1.
Ratios == {[num |-> 9, den |-> 10], [num |-> 1, den |-> 1]}

InitAnms ==
    /\ op = "anms, anms_kdtree"
    /\ pc = [anms |-> "call", anms_kdtree |-> "call"]
    /\ conv_input = Raise("none")
    /\ ret = [anms |-> Failed("none"), anms_kdtree |-> Failed("none")]
    /\ \E H \in ResponseMaps, n \in 0 .. MaxTake, c \in Ratios, edge \in 0 .. MaxEdge,
          use_thresh \in BOOLEAN, zipped \in BOOLEAN :
         args = [H |-> H, n |-> n, c |-> c, edge |-> edge,
                 use_thresh |-> use_thresh, zipped |-> zipped]

Anms ==
    /\ pc.anms = "call"
    /\ ret' = [ret EXCEPT !.anms = anms(args.H, args.n, args.c, args.use_thresh,
                                        args.zipped)]
    /\ pc' = [pc EXCEPT !.anms = "done"]
    /\ UNCHANGED <<op, args, conv_input>>

AnmsKdtree ==
    /\ pc.anms_kdtree = "call"
    /\ \E left \in anms_kdtree(args.H, args.n, args.c, args.edge, args.use_thresh,
                               args.zipped) :
         ret' = [ret EXCEPT !.anms_kdtree = left]
    /\ pc' = [pc EXCEPT !.anms_kdtree = "done"]
    /\ UNCHANGED <<op, args, conv_input>>

SpecAnms == InitAnms /\ [][Anms \/ AnmsKdtree]_vars

\* =========================================================== properties
Radius(kern) == Rows(kern) \div 2

ConvolveDone == pc = "done" /\ op = "convolve2d"

\* The kernel that is 0 everywhere except for a 1 at its centre.
IsImpulseKernel(kern) ==
    \A p \in Idx(Rows(kern), Cols(kern)) :
        kern.at[p] = IF p = <<Radius(kern), Radius(kern)>> THEN 1 ELSE 0

\* sum over the first k offsets (dv, du) of -r..r x -r..r, in row-major order,
\* of ext[v - dv, u - du] * kern[dv + r, du + r]
RECURSIVE ConvolutionSum(_, _, _, _, _)
ConvolutionSum(ext, kern, v, u, k) ==
    IF k = 0 THEN 0
    ELSE LET r == Radius(kern)
             dv == ((k - 1) \div (2 * r + 1)) - r
             du == ((k - 1) % (2 * r + 1)) - r
         IN  ConvolutionSum(ext, kern, v, u, k - 1)
             + ext[<<v - dv, u - du>>] * kern.at[<<dv + r, du + r>>]

\* The image continued r samples beyond each border: periodically, and by a
\* constant.
WrapExt(img, r) ==
    [p \in (-r .. Rows(img) - 1 + r) \X (-r .. Cols(img) - 1 + r) |->
        img.at[<<p[1] % Rows(img), p[2] % Cols(img)>>]]

FillExt(img, r, fill) ==
    [p \in (-r .. Rows(img) - 1 + r) \X (-r .. Cols(img) - 1 + r) |->
        IF p \in Idx(Rows(img), Cols(img)) THEN img.at[p] ELSE fill]

\* ret is an array of the image's shape holding the convolution of ext.
ReturnsConvolutionOf(ext) ==
    /\ ret.status = "ok"
    /\ ret.arr.shape = args.img.shape
    /\ \A p \in Idx(Rows(args.img), Cols(args.img)) :
          ret.arr.at[p] = ConvolutionSum(ext, args.kern, p[1], p[2],
                                         Rows(args.kern) * Rows(args.kern))

\* C1: with an identity-impulse kernel (the 1x1 kernel included) convolve2d
\* returns the image unchanged in each of the five boundary modes.
C1_ImpulseKernelReturnsImage ==
    (/\ ConvolveDone
     /\ IsImpulseKernel(args.kern)
     /\ args.boundary_mode \in Modes)
    => (ret.status = "ok" /\ ret.arr = args.img)

C4_WrapIsCircularConvolution ==
    (/\ ConvolveDone
     /\ args.boundary_mode = "wrap"
     /\ Rows(args.img) >= Radius(args.kern)
     /\ Cols(args.img) >= Radius(args.kern))
    => ReturnsConvolutionOf(WrapExt(args.img, Radius(args.kern)))

\* C5: in "fill" mode with radius r >= 1 the result has the image's shape
\* and every cell is the convolution sum (kernel flipped on both axes) over
\* the image continued by the fill value.
C5_FillIsConvolution ==
    (ConvolveDone /\ args.boundary_mode = "fill" /\ Radius(args.kern) >= 1)
    => ReturnsConvolutionOf(FillExt(args.img, Radius(args.kern), args.fill))

\* A fill-mode call with a non-zero fill value, the kernel of all-different
\* weights and an image with a single 1, whose result is not all zero.
C5_Witness ==
    /\ ConvolveDone
    /\ args.boundary_mode = "fill"
    /\ Radius(args.kern) >= 1
    /\ args.fill # 0
    /\ args.kern = Ramp(Rows(args.kern), Rows(args.kern))
    /\ \E c \in Idx(Rows(args.img), Cols(args.img)) :
          args.img = Impulse(Rows(args.img), Cols(args.img), c)
    /\ ret.status = "ok"
    /\ \E p \in Idx(Rows(args.img), Cols(args.img)) : ret.arr.at[p] # 0

\* C8: a boundary mode outside the five modes makes convolve2d raise
\* ValueError, and an even n makes get_gaussian_kernel raise ValueError;
\* neither call returns an array.
C8_InvalidParameterRaises ==
    /\ (ConvolveDone /\ args.boundary_mode \notin Modes)
         => (ret.status = "ValueError" /\ ret.arr.shape = <<0, 0>>)
    /\ (pc = "done" /\ op = "get_gaussian_kernel" /\ args.n % 2 = 0)
         => (ret.status = "ValueError" /\ ret.arr.shape = <<0, 0>>)

\* A finished convolve2d call with a string that is no boundary mode.
C8_Witness ==
    /\ ConvolveDone
    /\ args.boundary_mode \notin Modes
    /\ ret.status = "ValueError"

GetMaximaDone == pc = "done" /\ op = "get_maxima"

\* The points (column, row, score) of the cells off the outer border whose
\* score is at least the threshold and greater than that of each of the
\* eight cells around them.
StrictMaxima(im, threshold) ==
    {<<cell[2], cell[1], im.at[cell]>> :
        cell \in {x \in (1 .. Rows(im) - 2) \X (1 .. Cols(im) - 2) :
                    /\ ~Below(im.at[x], threshold)
                    /\ \A dk \in -1 .. 1, dj \in -1 .. 1 :
                          <<dk, dj>> # <<0, 0>>
                             => im.at[x] > im.at[<<x[1] + dk, x[2] + dj>>]}}

Range(list) == {list[q] : q \in 1 .. Len(list)}

\* C6: get_maxima returns exactly the strict maxima off the border at or
\* above the threshold, each once, and in row-major order when sort is not
\* set; a cell with an equal neighbour is not among them.
C6_ReturnsStrictMaxima ==
    GetMaximaDone
    => /\ Range(ret.val) = StrictMaxima(args.im, Exactly(args.threshold))
       /\ Len(ret.val) = Cardinality(Range(ret.val))
       /\ ~args.sort =>
            \A q \in 1 .. Len(ret.val) - 1 :
               \/ ret.val[q][2] < ret.val[q + 1][2]
               \/ /\ ret.val[q][2] = ret.val[q + 1][2]
                  /\ ret.val[q][1] < ret.val[q + 1][1]

\* An unsorted call that returns two points from a map with two bumps.
C6_Witness ==
    /\ GetMaximaDone
    /\ ~args.sort
    /\ Len(ret.val) = 2
    /\ ret.val[1][3] < ret.val[2][3]

\* The points of a value returned by _maxima_to_uv, as pairs.
Points(val, zipped) ==
    IF zipped THEN val ELSE [q \in 1 .. Len(val[1]) |-> <<val[1][q], val[2][q]>>]

\* The candidates of anms, and those of anms_kdtree in the coordinates of
\* the trimmed map.
Candidates == StrictMaxima(args.H, Threshold(args.H, args.use_thresh).val)

TrimmedCandidates ==
    StrictMaxima(Trim(args.H, args.edge),
                 Threshold(Trim(args.H, args.edge), args.use_thresh).val)

\* The candidates other than x with h_x < c * h_y.
StrongerThan(x, cand) ==
    {y \in cand \ {x} : x[3] * args.c.den < args.c.num * y[3]}

\* The square of the least distance from x to a candidate of the set.
Nearest2(x, set) ==
    CHOOSE d \in {Dist2(x, y) : y \in set} : \A y \in set : d <= Dist2(x, y)

\* The square of the sentinel max(height, width)^2.
Sentinel2 ==
    LET side == Max(Rows(args.H), Cols(args.H)) IN (side * side) * (side * side)

\* The square of rmin_i as the claims define it.
Radius2(x, cand) ==
    IF StrongerThan(x, cand) = {} THEN Sentinel2 ELSE Nearest2(x, StrongerThan(x, cand))

\* C2: with edge = 0 and the same other arguments, anms and anms_kdtree
\* return the same set of points.
C2_AnmsAndKdtreeAgree ==
    (pc.anms = "done" /\ pc.anms_kdtree = "done" /\ args.edge = 0)
    => /\ ret.anms.status = "ok"
       /\ ret.anms_kdtree.status = "ok"
       /\ Range(Points(ret.anms.val, args.zipped))
            = Range(Points(ret.anms_kdtree.val, args.zipped))

\* C7: anms gives every candidate the least distance to a candidate with
\* h_i < c * h_k, or the sentinel when there is none, sorts the candidates
\* by that radius, largest first, and returns the first min(n, number of
\* candidates) of them.
C7_AnmsRanksByRadius ==
    pc.anms = "done"
    => LET ranked == ret.anms.anms_maxima
       IN  /\ ret.anms.status = "ok"
           /\ Range(ranked) = {<<x[1], x[2], Radius2(x, Candidates)>> : x \in Candidates}
           /\ Len(ranked) = Cardinality(Candidates)
           /\ \A q \in 1 .. Len(ranked) - 1 : ranked[q][3] >= ranked[q + 1][3]
           /\ Points(ret.anms.val, args.zipped)
                = [q \in 1 .. Min(args.n, Len(ranked)) |-> <<ranked[q][1], ranked[q][2]>>]

\* A call of anms with more candidates than n, the first never suppressed,
\* the last suppressed.
C7_Witness ==
    /\ pc.anms = "done"
    /\ args.n = 2
    /\ Len(ret.anms.anms_maxima) >= 3
    /\ ret.anms.anms_maxima[1][3] = Sentinel2
    /\ ret.anms.anms_maxima[Len(ret.anms.anms_maxima)][3] < Sentinel2
    /\ Len(Points(ret.anms.val, args.zipped)) = 2

\* C9: anms_kdtree records an entry for a candidate exactly when some other
\* candidate is stronger (h_i < c * h_k), and the radius of the entry is the
\* distance to the nearest such candidate.
C9_KdtreeFindsNearestStronger ==
    (pc.anms_kdtree = "done" /\ ret.anms_kdtree.status = "ok")
    => \A x \in TrimmedCandidates :
          LET at == {e \in Range(ret.anms_kdtree.anms_maxima) :
                        e[1] = x[1] + args.edge /\ e[2] = x[2] + args.edge}
          IN  IF StrongerThan(x, TrimmedCandidates) = {}
              THEN at = {}
              ELSE at = {<<x[1] + args.edge, x[2] + args.edge,
                           Nearest2(x, StrongerThan(x, TrimmedCandidates))>>}

\* C10: in anms a candidate of the greatest score has the sentinel radius,
\* and no candidate with another radius is ranked before it.
C10_StrongestNeverSuppressed ==
    (pc.anms = "done" /\ ret.anms.status = "ok")
    => LET ranked == ret.anms.anms_maxima
       IN  \A x \in Candidates :
              (\A y \in Candidates : y[3] <= x[3])
              => \E q \in 1 .. Len(ranked) :
                    /\ ranked[q] = <<x[1], x[2], Sentinel2>>
                    /\ \A b \in 1 .. q - 1 : ranked[b][3] = Sentinel2

====
